---- MODULE Spec2Model ----
(***************************************************************************)
(* Model of src/main.py: the get_place_info request handler and the        *)
(* functions it calls (get_area_grid_points, get_all_places,               *)
(* get_area_name, convert_to_place_info).                                  *)
(*                                                                         *)
(* Coordinates are integers in units of 0.001 degree, so that the grid     *)
(* steps 0.009 and 0.011 of the source are the integers 9 and 11.          *)
(* The three upstream operations (geocode, places_nearby, reverse_geocode) *)
(* are nondeterministic: every call may raise or answer.                   *)
(* A place is identified by its place_id; the record the places service    *)
(* returns for it either carries the keys convert_to_place_info reads      *)
(* ('name', 'geometry') or it does not (the set nameless).                 *)
(* The Japanese string literals of the source are written in ASCII.        *)
(***************************************************************************)
EXTENDS Integers, Sequences, FiniteSets, TLC

\* ---------------------------------------------------------------- bounds
\* number of distinct place identifiers the places service knows
NumIds == 2
\* number of place records the places service hands out during one run
MaxReturned == 2
\* largest latitude / longitude span (0.001 degree) of the boxes of SpecGrid
MaxSpanLat == 19
MaxSpanLng == 23

\* ------------------------------------------------------ program constants
lat_step == 9
lng_step == 11
MAX_RETRIES == 3
MAX_PAGES == 3

HTTP_OK == 200
HTTP_NOT_FOUND == 404
HTTP_INTERNAL_ERROR == 500

\* "chiiki fumei" (area unknown), the sentinel of get_area_name
AREA_UNKNOWN == "chiiki-fumei"

PlaceIds == 1..NumIds

\* The six categories in the order of the handler's accumulators.
Categories == 1..6

\* place_type label given to convert_to_place_info for each category
CategoryLabel(c) ==
    CASE c = 1 -> "ippan-inshokuten"
      [] c = 2 -> "izakaya"
      [] c = 3 -> "family-restaurant"
      [] c = 4 -> "ramen"
      [] c = 5 -> "soba-udon"
      [] c = 6 -> "cafe"

VARIABLES
    pc,               \* position of the handler
    status,           \* HTTP status of the finished request, 0 while running
    geocode_result,   \* what gmaps.geocode answered
    bounds,           \* the bounding box the handler uses
    grid_points,      \* result of get_area_grid_points
    point_i,          \* index of the grid point being searched
    cat_i,            \* index of the category being searched
    has_token,        \* 'next_page_token' in response
    page_count,
    retry_count,
    results,          \* results of the running get_all_places call
    log,              \* upstream calls and sleeps of the running get_all_places call
    left,             \* records the places service may still hand out
    served,           \* place ids the places service has returned in this request
    nameless,         \* place ids whose record lacks 'name' / 'geometry'
    all_places,       \* the six accumulators all_*
    seen_ids,
    unique,           \* the six lists unique_*
    processing_time,  \* "unset" until line 250 has run
    total_restaurants,
    conv_c,           \* category being converted
    conv_k,           \* index of the place being converted
    lists,            \* the six converted lists of the response
    reverse_raised    \* number of reverse_geocode calls of the request that raised

vars == <<pc, status, geocode_result, bounds, grid_points, point_i, cat_i,
          has_token, page_count, retry_count, results, log, left, served,
          nameless, all_places, seen_ids, unique, processing_time,
          total_restaurants, conv_c, conv_k, lists, reverse_raised>>

\* ------------------------------------------------------------ grid
Point(lat, lng) == [lat |-> lat, lng |-> lng]
Box(sw, ne) == [southwest |-> sw, northeast |-> ne]

\* faulty variant: one step too many when the span is a multiple of the step
GridStepsFloorPlusOne(span, step) == (span \div step) + 1

\* math.ceil(span / step)
GridSteps(span, step) == (span + step - 1) \div step

get_area_grid_points(b) ==
    LET ne == b.northeast
        sw == b.southwest
        lat_points == GridSteps(ne.lat - sw.lat, lat_step)
        lng_points == GridSteps(ne.lng - sw.lng, lng_step)
        \* the pairs (i, j) in the order of the two nested loops
        cell == [k \in 1..(lat_points * lng_points) |->
                    Point(sw.lat + ((k - 1) \div lng_points) * lat_step,
                          sw.lng + ((k - 1) % lng_points) * lng_step)]
        inside(p) == p.lat <= ne.lat /\ p.lng <= ne.lng
    IN  SelectSeq(cell, inside)

\* ------------------------------------------------------------ upstream
\* Answers of gmaps.geocode: it raises, answers the empty list, or answers a
\* match whose geometry has no 'bounds' key, a null 'bounds', or a box.
Origin == Point(0, 0)

HandlerBoxes ==
    { Box(Origin, Origin),
      Box(Origin, Point(lat_step, lng_step)),
      Box(Origin, Point(lat_step + 1, lng_step)) }

GeocodeOutcomes ==
    { [kind |-> k.kind, bounds_key |-> k.bounds_key, box |-> Box(Origin, Origin),
       location |-> Origin] :
         k \in { [kind |-> "raise",    bounds_key |-> "none"],
                 [kind |-> "no_match", bounds_key |-> "none"],
                 [kind |-> "match",    bounds_key |-> "absent"],
                 [kind |-> "match",    bounds_key |-> "null"] } }
    \cup { [kind |-> "match", bounds_key |-> "box", box |-> b, location |-> Origin] :
             b \in HandlerBoxes }

\* One page of results: at most n place ids.
Pages(n) == UNION { [1..k -> PlaceIds] : k \in 0..n }

\* Answers of gmaps.places_nearby: it raises, or answers a page with or
\* without a next_page_token.  (A response without the 'results' key adds
\* nothing to results, like the empty page.)
NearbyOutcomes(n) ==
    { [ok |-> FALSE, results |-> <<>>, token |-> FALSE] }
    \cup { [ok |-> TRUE, results |-> p, token |-> t] : p \in Pages(n), t \in BOOLEAN }

\* Answers of gmaps.reverse_geocode: it raises, answers the empty list, answers
\* a result with a 'sublocality' component, or one without.
ReverseOutcomes == {"raise", "empty", "sublocality", "formatted"}

\* entries of log: a sleep, or an upstream call with the page it asked for
Slept == [op |-> "sleep", page |-> 0, ok |-> TRUE, results |-> <<>>, token |-> FALSE]
Called(op, page, o) ==
    [op |-> op, page |-> page, ok |-> o.ok, results |-> o.results, token |-> o.token]

Range(s) == { s[i] : i \in DOMAIN s }

\* ------------------------------------------------------------ get_all_places
\* faulty variant: one page too many
ContinuePagingOffByOne(token, pages) == token /\ pages <= MAX_PAGES

\* the condition of the while loop of line 101
ContinuePaging(token, pages) == token /\ pages < MAX_PAGES

\* faulty variant: the exception of an exhausted page leaves get_all_places
PageFailedEscapes(retries) ==
    IF retries = MAX_RETRIES
    THEN [pc |-> "done", status |-> HTTP_INTERNAL_ERROR]
    ELSE [pc |-> "backoff", status |-> 0]

\* lines 116-121: where a failed continuation call goes, retries being the
\* incremented retry_count
PageFailed(retries) ==
    IF retries = MAX_RETRIES
    THEN [pc |-> "page_loop", status |-> 0]
    ELSE [pc |-> "backoff", status |-> 0]

\* faulty variant: the failure of the initial call fails the request
InitialFailedEscapes == [pc |-> "done", status |-> HTTP_INTERNAL_ERROR]

\* lines 123-126: a failure of the initial call is logged and results returned
InitialFailed == [pc |-> "search_return", status |-> 0]

search_vars == <<has_token, page_count, retry_count, results, log, left, served>>
handler_vars == <<geocode_result, bounds, grid_points, point_i, cat_i, nameless,
                  all_places, seen_ids, unique, processing_time,
                  total_restaurants, conv_c, conv_k, lists, reverse_raised>>

\* lines 85-100: the initial places_nearby call
PlacesNearby ==
    /\ pc = "places_nearby"
    /\ \E o \in NearbyOutcomes(left) :
          /\ log' = Append(log, Called("places_nearby", 1, o))
          /\ IF o.ok
             THEN /\ results' = results \o o.results
                  /\ has_token' = o.token
                  /\ page_count' = 1
                  /\ left' = left - Len(o.results)
                  /\ served' = served \cup Range(o.results)
                  /\ pc' = "page_loop"
                  /\ status' = status
             ELSE /\ pc' = InitialFailed.pc
                  /\ status' = InitialFailed.status
                  /\ UNCHANGED <<results, has_token, page_count, left, served>>
    /\ UNCHANGED retry_count
    /\ UNCHANGED handler_vars

\* lines 101-103: the head of the page loop
PageLoop ==
    /\ pc = "page_loop"
    /\ IF ContinuePaging(has_token, page_count)
       THEN /\ page_count' = page_count + 1
            /\ retry_count' = 0
            /\ pc' = "delay"
       ELSE /\ pc' = "search_return"
            /\ UNCHANGED <<page_count, retry_count>>
    /\ UNCHANGED <<status, has_token, results, log, left, served>>
    /\ UNCHANGED handler_vars

\* lines 105-107: retry_count < MAX_RETRIES holds here; time.sleep(2)
Delay ==
    /\ pc = "delay"
    /\ retry_count < MAX_RETRIES
    /\ log' = Append(log, Slept)
    /\ pc' = "next_page"
    /\ UNCHANGED <<status, has_token, page_count, retry_count, results, left, served>>
    /\ UNCHANGED handler_vars

\* lines 108-120: the continuation call with response['next_page_token']
NextPage ==
    /\ pc = "next_page"
    /\ \E o \in NearbyOutcomes(left) :
          /\ log' = Append(log, Called("page_token", page_count, o))
          /\ IF o.ok
             THEN /\ results' = results \o o.results
                  /\ has_token' = o.token
                  /\ left' = left - Len(o.results)
                  /\ served' = served \cup Range(o.results)
                  /\ pc' = "page_loop"
                  /\ status' = status
                  /\ UNCHANGED retry_count
             ELSE /\ retry_count' = retry_count + 1
                  /\ pc' = PageFailed(retry_count + 1).pc
                  /\ status' = PageFailed(retry_count + 1).status
                  /\ UNCHANGED <<results, has_token, left, served>>
    /\ UNCHANGED page_count
    /\ UNCHANGED handler_vars

\* line 121: time.sleep(2) after a failed attempt that was not the last
Backoff ==
    /\ pc = "backoff"
    /\ log' = Append(log, Slept)
    /\ pc' = "delay"
    /\ UNCHANGED <<status, has_token, page_count, retry_count, results, left, served>>
    /\ UNCHANGED handler_vars

SearchNext == PlacesNearby \/ PageLoop \/ Delay \/ NextPage \/ Backoff

\* lines 126 and 203-208: get_all_places returns results, the handler extends
\* the accumulator of the category and goes on with the next pair
SearchReturn ==
    /\ pc = "search_return"
    /\ all_places' = [all_places EXCEPT ![cat_i] = @ \o results]
    /\ IF cat_i = 6
       THEN point_i' = point_i + 1 /\ cat_i' = 1
       ELSE point_i' = point_i /\ cat_i' = cat_i + 1
    /\ pc' = "fanout"
    \* the locals of the call are gone
    /\ results' = <<>>
    /\ log' = <<>>
    /\ has_token' = FALSE
    /\ page_count' = 0
    /\ retry_count' = 0
    /\ UNCHANGED <<status, geocode_result, bounds, grid_points, nameless, seen_ids,
                   unique, processing_time, total_restaurants, conv_c, conv_k, lists,
                   reverse_raised, left, served>>

\* ------------------------------------------------------------ get_place_info
\* lines 264-266: every exception raised inside the try block, the
\* HTTPException of line 177 included, is re-raised with status 500
ExceptClause(raised_status) == HTTP_INTERNAL_ERROR

\* lines 167-185: geocode the address and take the bounds
Geocode ==
    /\ pc = "geocode"
    /\ \E g \in GeocodeOutcomes :
          /\ geocode_result' = g
          /\ CASE g.kind = "raise" ->
                    /\ status' = ExceptClause(HTTP_INTERNAL_ERROR)
                    /\ pc' = "done"
                    /\ UNCHANGED bounds
               [] g.kind = "no_match" ->
                    \* line 177 raises HTTPException(404) inside the try block
                    /\ status' = ExceptClause(HTTP_NOT_FOUND)
                    /\ pc' = "done"
                    /\ UNCHANGED bounds
               [] g.kind = "match" /\ g.bounds_key = "absent" ->
                    \* line 180: KeyError
                    /\ status' = ExceptClause(HTTP_INTERNAL_ERROR)
                    /\ pc' = "done"
                    /\ UNCHANGED bounds
               [] g.kind = "match" /\ g.bounds_key = "null" ->
                    /\ bounds' = Box(g.location, g.location)
                    /\ pc' = "grid"
                    /\ UNCHANGED status
               [] g.kind = "match" /\ g.bounds_key = "box" ->
                    /\ bounds' = g.box
                    /\ pc' = "grid"
                    /\ UNCHANGED status
    /\ UNCHANGED <<grid_points, point_i, cat_i, nameless, all_places, seen_ids, unique,
                   processing_time, total_restaurants, conv_c, conv_k, lists,
                   reverse_raised>>
    /\ UNCHANGED search_vars

\* line 188
Grid ==
    /\ pc = "grid"
    /\ grid_points' = get_area_grid_points(bounds)
    /\ pc' = "fanout"
    /\ UNCHANGED <<status, geocode_result, bounds, point_i, cat_i, nameless, all_places,
                   seen_ids, unique, processing_time, total_restaurants, conv_c,
                   conv_k, lists, reverse_raised>>
    /\ UNCHANGED search_vars

\* lines 200-208: the next (grid point, category) pair, get_all_places entered
\* with results = [] (lines 81-83), or the end of the loop
Fanout ==
    /\ pc = "fanout"
    /\ IF point_i <= Len(grid_points)
       THEN pc' = "places_nearby"
       ELSE pc' = "dedup"
    /\ UNCHANGED status
    /\ UNCHANGED search_vars
    /\ UNCHANGED handler_vars

\* one of the six loops of lines 220-248: the places of one accumulator whose
\* place_id is not in seen, in order, each at most once
RECURSIVE KeepNew(_, _)
KeepNew(places, seen) ==
    IF places = <<>> THEN <<>>
    ELSE IF Head(places) \in seen
         THEN KeepNew(Tail(places), seen)
         ELSE <<Head(places)>> \o KeepNew(Tail(places), seen \cup {Head(places)})

\* lines 212-248: the six loops in their order, sharing seen_ids
RECURSIVE DedupCategories(_, _, _, _)
DedupCategories(accs, c, seen, out) ==
    IF c > 6 THEN [seen_ids |-> seen, unique |-> out]
    ELSE LET kept == KeepNew(accs[c], seen)
         IN  DedupCategories(accs, c + 1, seen \cup Range(kept),
                             [out EXCEPT ![c] = kept])

EmptyLists == [c \in Categories |-> <<>>]

Dedup ==
    /\ pc = "dedup"
    /\ LET d == DedupCategories(all_places, 1, {}, EmptyLists)
       IN  /\ seen_ids' = d.seen_ids
           /\ unique' = d.unique
    /\ pc' = "measure"
    /\ UNCHANGED <<status, geocode_result, bounds, grid_points, point_i, cat_i, nameless,
                   all_places, processing_time, total_restaurants, conv_c, conv_k, lists,
                   reverse_raised>>
    /\ UNCHANGED search_vars

\* lines 250-254: the duration is taken, then the response is built, its
\* first field being len(seen_ids)
Measure ==
    /\ pc = "measure"
    /\ processing_time' = "measured"
    /\ total_restaurants' = Cardinality(seen_ids)
    /\ conv_c' = 1
    /\ conv_k' = 1
    /\ pc' = "convert"
    /\ UNCHANGED <<status, geocode_result, bounds, grid_points, point_i, cat_i, nameless,
                   all_places, seen_ids, unique, lists, reverse_raised>>
    /\ UNCHANGED search_vars

\* the value of a call that raises instead of returning
RAISED == "raised"

\* faulty variant: no try/except around the reverse_geocode call
get_area_name_unguarded(o) ==
    CASE o = "raise"       -> RAISED
      [] o = "empty"       -> AREA_UNKNOWN
      [] o = "sublocality" -> "sublocality-long-name"
      [] o = "formatted"   -> "formatted-address-head"

\* lines 128-144: every exception of the lookup is caught and the sentinel
\* returned; the first 'sublocality' component, else the head of the
\* formatted address
get_area_name(o) ==
    CASE o = "raise"       -> AREA_UNKNOWN
      [] o = "empty"       -> AREA_UNKNOWN
      [] o = "sublocality" -> "sublocality-long-name"
      [] o = "formatted"   -> "formatted-address-head"

\* lines 154-160; the name stands for the place, 'vicinity' is left out
PlaceInfo(id, c, area) == [name |-> id, place_type |-> CategoryLabel(c), area |-> area]

\* lines 152-163 and 255-262: the next place of the six convert_to_place_info
\* calls.  A record without 'name' or 'geometry' raises KeyError before
\* get_area_name is called; line 161 catches it and the place is left out.
Convert ==
    /\ pc = "convert"
    /\ IF conv_c > 6
       THEN /\ pc' = "done"
            /\ status' = HTTP_OK
            /\ UNCHANGED <<conv_c, conv_k>>
       ELSE IF conv_k > Len(unique[conv_c])
       THEN /\ conv_c' = conv_c + 1
            /\ conv_k' = 1
            /\ UNCHANGED <<pc, status>>
       ELSE IF unique[conv_c][conv_k] \in nameless
       THEN /\ conv_k' = conv_k + 1
            /\ UNCHANGED <<pc, status, conv_c>>
       ELSE /\ pc' = "reverse_geocode"
            /\ UNCHANGED <<status, conv_c, conv_k>>
    /\ UNCHANGED <<geocode_result, bounds, grid_points, point_i, cat_i, nameless,
                   all_places, seen_ids, unique, processing_time, total_restaurants,
                   lists, reverse_raised>>
    /\ UNCHANGED search_vars

\* lines 133 and 154-160: the reverse_geocode call of get_area_name and the
\* PlaceInfo appended to the result
ReverseGeocode ==
    /\ pc = "reverse_geocode"
    /\ \E o \in ReverseOutcomes :
          /\ lists' = IF get_area_name(o) = RAISED
                       THEN lists   \* line 161 catches it: the place is left out
                       ELSE [lists EXCEPT ![conv_c] =
                               Append(@, PlaceInfo(unique[conv_c][conv_k], conv_c,
                                                   get_area_name(o)))]
          /\ reverse_raised' = reverse_raised + (IF o = "raise" THEN 1 ELSE 0)
    /\ conv_k' = conv_k + 1
    /\ pc' = "convert"
    /\ UNCHANGED <<status, geocode_result, bounds, grid_points, point_i, cat_i, nameless,
                   all_places, seen_ids, unique, processing_time, total_restaurants,
                   conv_c>>
    /\ UNCHANGED search_vars

\* ------------------------------------------------------------ specifications
InitCommon ==
    /\ status = 0
    /\ grid_points = <<>>
    /\ point_i = 1
    /\ cat_i = 1
    /\ has_token = FALSE
    /\ page_count = 0
    /\ retry_count = 0
    /\ results = <<>>
    /\ log = <<>>
    /\ left = MaxReturned
    /\ served = {}
    /\ all_places = EmptyLists
    /\ seen_ids = {}
    /\ unique = EmptyLists
    /\ processing_time = "unset"
    /\ total_restaurants = 0
    /\ conv_c = 1
    /\ conv_k = 1
    /\ lists = EmptyLists
    /\ reverse_raised = 0

NoGeocode == [kind |-> "none", bounds_key |-> "none", box |-> Box(Origin, Origin),
              location |-> Origin]
Matched(b) == [kind |-> "match", bounds_key |-> "box", box |-> b, location |-> Origin]

\* the places whose record lacks 'name': none, or the place 1
NamelessChoices == { {}, {1} }

\* the request as it enters get_place_info
Init ==
    /\ pc = "geocode"
    /\ geocode_result = NoGeocode
    /\ bounds = Box(Origin, Origin)
    /\ nameless \in NamelessChoices
    /\ InitCommon

Next ==
    \/ Geocode
    \/ Grid
    \/ Fanout
    \/ PlacesNearby
    \/ PageLoop
    \/ Delay
    \/ NextPage
    \/ Backoff
    \/ SearchReturn
    \/ Dedup
    \/ Measure
    \/ Convert
    \/ ReverseGeocode

Spec == Init /\ [][Next]_vars

\* get_area_grid_points alone, applied to every box of a bounded set
GridBoxes ==
    { Box(sw, Point(sw.lat + dlat, sw.lng + dlng)) :
        sw \in {Origin, Point(lat_step - 1, 1)},
        dlat \in 0..MaxSpanLat, dlng \in 0..MaxSpanLng }

InitGrid ==
    /\ pc = "grid"
    /\ \E b \in GridBoxes : geocode_result = Matched(b) /\ bounds = b
    /\ nameless = {}
    /\ InitCommon

SpecGrid == InitGrid /\ [][Grid]_vars

\* one get_all_places call alone: the handler has geocoded a one-point box
\* and enters the first search
OnePointBox == Box(Origin, Point(lat_step, lng_step))

InitSearch ==
    /\ pc = "places_nearby"
    /\ geocode_result = Matched(OnePointBox)
    /\ bounds = OnePointBox
    /\ nameless = {}
    /\ status = 0
    /\ grid_points = get_area_grid_points(OnePointBox)
    /\ point_i = 1
    /\ cat_i = 1
    /\ has_token = FALSE
    /\ page_count = 0
    /\ retry_count = 0
    /\ results = <<>>
    /\ log = <<>>
    /\ left = MaxReturned
    /\ served = {}
    /\ all_places = EmptyLists
    /\ seen_ids = {}
    /\ unique = EmptyLists
    /\ processing_time = "unset"
    /\ total_restaurants = 0
    /\ conv_c = 1
    /\ conv_k = 1
    /\ lists = EmptyLists
    /\ reverse_raised = 0

SpecSearch == InitSearch /\ [][SearchNext]_vars

\* the interpreter always takes the next step of a running call
FairSearch == SpecSearch /\ WF_vars(SearchNext)

\* ------------------------------------------------------------ properties
Succeeded == pc = "done" /\ status = HTTP_OK

\* the place ids of one converted list, in order
Names(c) == [i \in DOMAIN lists[c] |-> lists[c][i].name]

\* the positions of the response that hold the place id
Occurrences(id) ==
    { <<c, i>> \in Categories \X (1..MaxReturned) :
          i \in DOMAIN lists[c] /\ lists[c][i].name = id }

AccumulatedIds == UNION { Range(all_places[c]) : c \in Categories }

\* the earliest category whose accumulator holds the place id
Earliest(id) ==
    CHOOSE c \in Categories :
        /\ id \in Range(all_places[c])
        /\ \A d \in 1..(c - 1) : id \notin Range(all_places[d])

ListsTotal ==
    Len(lists[1]) + Len(lists[2]) + Len(lists[3]) + Len(lists[4]) + Len(lists[5])
        + Len(lists[6])

\* C1: when the geocoder answers no match, the request ends with status 404
\* (address not found), not with status 500.
C1_NoMatchEndsNotFound ==
    (pc = "done" /\ geocode_result.kind = "no_match") => status = HTTP_NOT_FOUND

\* C2: in the final response every place id held by some accumulator appears
\* exactly once, in the list of the earliest category whose accumulator holds it.
C2_OnceInEarliestCategory ==
    Succeeded =>
        \A id \in AccumulatedIds :
            /\ Cardinality(Occurrences(id)) = 1
            /\ \A o \in Occurrences(id) : o[1] = Earliest(id)

\* The dedup stage alone does what C2 says of the response: in the six
\* unique_* lists every accumulated id is held once, by the earliest category.
DedupKeepsEarliest ==
    pc \in {"measure", "convert", "reverse_geocode", "done"} /\ status # HTTP_INTERNAL_ERROR =>
        \A id \in AccumulatedIds :
            \A c \in Categories :
                Cardinality({ i \in DOMAIN unique[c] : unique[c][i] = id })
                    = (IF c = Earliest(id) THEN 1 ELSE 0)

\* C3: in every successful response total_restaurants is the sum of the
\* lengths of the six returned lists.
C3_TotalIsSumOfLists ==
    Succeeded => total_restaurants = ListsTotal

\* C5: for a zero-area box the grid is the one point of the box.
C5_PointBoxGivesOnePoint ==
    (pc = "fanout" /\ bounds.northeast = bounds.southwest) =>
        grid_points = <<bounds.southwest>>

\* the least n with n * step >= span, for span >= 0
CeilOf(span, step) == CHOOSE n \in 0..span : n * step >= span /\ (n - 1) * step < span

\* C6: every grid point lies in the box and is southwest + (i * lat_step,
\* j * lng_step) with 0 <= i < ceil(lat span / lat_step) and
\* 0 <= j < ceil(lng span / lng_step).
C6_GridPointsInBoxOnLattice ==
    pc = "fanout" =>
        LET sw == bounds.southwest
            ne == bounds.northeast
        IN  \A k \in DOMAIN grid_points :
                LET p == grid_points[k]
                IN  /\ sw.lat <= p.lat /\ p.lat <= ne.lat
                    /\ sw.lng <= p.lng /\ p.lng <= ne.lng
                    /\ \E i \in 0..(CeilOf(ne.lat - sw.lat, lat_step) - 1),
                          j \in 0..(CeilOf(ne.lng - sw.lng, lng_step) - 1) :
                            p = Point(sw.lat + i * lat_step, sw.lng + j * lng_step)

\* a box of three rows and three columns has been tiled
C6_Witness == pc = "fanout" /\ Len(grid_points) = 9

BoundsObtained ==
    geocode_result.kind = "match" /\ geocode_result.bounds_key \in {"null", "box"}

KeptTotal ==
    Len(unique[1]) + Len(unique[2]) + Len(unique[3]) + Len(unique[4]) + Len(unique[5])
        + Len(unique[6])

\* C7: when the reverse_geocode lookup of every place kept by the dedup has
\* raised, the request succeeds, every kept place is in the list of its
\* category, and its area is the sentinel.
C7_ReverseFailureKeepsPlaces ==
    (pc = "done" /\ BoundsObtained /\ reverse_raised = KeptTotal) =>
        /\ status = HTTP_OK
        /\ \A c \in Categories :
              /\ Names(c) = unique[c]
              /\ \A i \in DOMAIN lists[c] : lists[c][i].area = AREA_UNKNOWN

\* the request is done, two places were kept and the lookup of both raised
C7_Witness ==
    /\ pc = "done"
    /\ KeptTotal = MaxReturned
    /\ reverse_raised = KeptTotal

UpstreamCallPcs == {"geocode", "places_nearby", "next_page", "reverse_geocode"}

\* C8: the duration is taken after every upstream call of the request: the
\* handler is never about to call upstream with the duration already taken.
C8_NoUpstreamCallAfterMeasure ==
    pc \in UpstreamCallPcs => processing_time = "unset"

\* the initial call of the running search failed
InitialCallFailed == Len(log) = 1 /\ log[1].op = "places_nearby" /\ ~log[1].ok

PageCalls == { i \in DOMAIN log : log[i].op = "page_token" }
OkCalls == { i \in DOMAIN log : log[i].op # "sleep" /\ log[i].ok }

\* the results of the successful calls of log[1..n], in order
RECURSIVE Collected(_)
Collected(n) ==
    IF n = 0 THEN <<>>
    ELSE Collected(n - 1)
            \o (IF log[n].op # "sleep" /\ log[n].ok THEN log[n].results ELSE <<>>)

FirstPageThenFailures ==
    /\ Len(log) >= 1
    /\ log[1].op = "places_nearby" /\ log[1].ok /\ log[1].token
    /\ \A i \in PageCalls : ~log[i].ok

\* C4: when the initial call answers with a token and every continuation call
\* fails, get_all_places returns the first page's results and raises nothing.
C4_FirstPageKept ==
    FirstPageThenFailures =>
        /\ status = 0 /\ pc # "done"
        /\ results = log[1].results
        /\ pc = "search_return" => Cardinality(PageCalls) = (MAX_PAGES - 1) * MAX_RETRIES

\* the call returns a full first page after every continuation attempt failed
C4_Witness ==
    /\ pc = "search_return"
    /\ FirstPageThenFailures
    /\ Cardinality(PageCalls) = (MAX_PAGES - 1) * MAX_RETRIES
    /\ Len(results) = MaxReturned

C10_Bounds ==
    \* at most MAX_PAGES pages are collected, at most MAX_PAGES - 1 of them
    \* continuation pages
    /\ Cardinality(OkCalls) <= MAX_PAGES
    /\ \A i \in PageCalls : log[i].page \in 2..MAX_PAGES
    /\ \A q \in 2..MAX_PAGES :
          /\ Cardinality({ i \in PageCalls : log[i].page = q }) <= MAX_RETRIES
          /\ Cardinality({ i \in PageCalls : log[i].page = q /\ log[i].ok }) <= 1
    \* every continuation attempt comes right after a sleep
    /\ \A i \in PageCalls : i > 1 /\ log[i - 1].op = "sleep"
    \* nothing collected is lost
    /\ results = Collected(Len(log))

\* C10: one get_all_places call terminates, collects at most 3 pages, tries
\* each continuation page at most 3 times, sleeps before every continuation
\* attempt, and returns everything collected before an abandoned page.
C10_SearchBoundedAndTerminates ==
    /\ []C10_Bounds
    /\ <>(pc = "search_return")

\* page 2 is abandoned after three attempts, page 3 answers at the third
\* attempt, and the call returns the results of both collected pages
C10_Witness ==
    /\ pc = "search_return"
    /\ Cardinality(PageCalls) = (MAX_PAGES - 1) * MAX_RETRIES
    /\ Cardinality(OkCalls) = 2
    /\ \A i \in PageCalls : log[i].page = 2 => ~log[i].ok
    /\ Len(results) = MaxReturned

====
